---- MODULE Spec2Model ----
(***************************************************************************)
(* A model of grigolp/mushroom-segmentation: the MushroomSegmenter         *)
(* pipeline (core/segmentation.py), the Settings object                    *)
(* (config/settings.py) and the command line entry point (__main__.py).    *)
(*                                                                         *)
(* Images are functions from pixel coordinates <<y, x>> to 8-bit levels.   *)
(* Distances are fixed-point numbers, in units of 1/DistScale pixel.       *)
(* peaks_rel_threshold is kept in hundredths.  Products of a distance and  *)
(* the compensation coefficient are computed exactly, as a fraction.       *)
(***************************************************************************)
EXTENDS Integers, Sequences, FiniteSets, TLC

VARIABLES
    settings,            \* the Settings object the segmenter reads
    image,               \* the input of segment(): [channels, px]
    preprocessed,        \* segment()'s locals, in the order they are assigned
    foreground_mask,
    masked_image,
    dist_map,
    equalized_image,
    equalized_dist_map,
    peaks,
    circles,
    pc,                  \* the next stage of the method under execution
    trace,               \* the stages started so far, in order
    fault,               \* the stage in which a library call raises, or "none"
    prev,                \* the runs of _extract_circles completed before this one
    argv,                \* the command line: flags and paths
    env,                 \* what Settings() finds in .env / the --config file
    cli_pc,              \* the position of cli()
    csv,                 \* the rows this run has written to the CSV file
    exit_status,         \* the process's exit status, -1 while it runs
    error,               \* where the exception in flight was raised, or ""
    log                  \* the records logged so far

segvars == <<image, preprocessed, foreground_mask, masked_image, dist_map,
             equalized_image, equalized_dist_map, peaks, circles, pc, trace>>

clivars == <<argv, env, cli_pc, csv, exit_status, error, log>>

vars == <<settings, segvars, fault, prev, clivars>>

(***************************************************************************)
(* Bounds of the model.                                                    *)
(***************************************************************************)
GridH == 3

GridW == 3

PeakH == 3

PeakW == 5

BgH == 2

BgW == 2

MaxPeaks == 2

MaxRuns == 2

(***************************************************************************)
(* Numbers of the program and of the libraries it calls.                   *)
(***************************************************************************)
MaxVal == 255

DistScale == 10000

HvDist == 9550

DiagDist == 13693

DistMax == 81920000

DilateIterations == 5

(***************************************************************************)
(* Arithmetic helpers.                                                     *)
(***************************************************************************)
MinOf(S) == CHOOSE m \in S : \A n \in S : m <= n

MaxOf(S) == CHOOSE m \in S : \A n \in S : m >= n

Abs(n) == IF n < 0 THEN -n ELSE n

\* Python's int() of the fraction n / d (d > 0): truncation toward zero.
PyInt(n, d) == IF n >= 0 THEN n \div d ELSE -((-n) \div d)

\* floor of the fraction n / d (d > 0).
Floor(n, d) == n \div d

(***************************************************************************)
(* Images.                                                                 *)
(***************************************************************************)
NoImage == <<>>

Grid(h, w) == (0 .. h - 1) \X (0 .. w - 1)

Height(img) == IF DOMAIN img = {} THEN 0 ELSE 1 + MaxOf({p[1] : p \in DOMAIN img})

Width(img) == IF DOMAIN img = {} THEN 0 ELSE 1 + MaxOf({p[2] : p \in DOMAIN img})

Uniform(h, w, level) == [p \in Grid(h, w) |-> level]

IsUniform(img) == \A p, q \in DOMAIN img : img[p] = img[q]

\* np.unique(image): the distinct levels of the image.
Unique(img) == {img[p] : p \in DOMAIN img}

\* The pixels under a k x k structuring element anchored at its centre
\* (k \div 2, k \div 2) and placed on p; pixels outside the image are left out
\* (OpenCV's default border value for a morphological operation never wins).
Window(img, p, k) ==
    {q \in DOMAIN img :
        /\ q[1] - p[1] >= -(k \div 2) /\ q[1] - p[1] <= k - 1 - (k \div 2)
        /\ q[2] - p[2] >= -(k \div 2) /\ q[2] - p[2] <= k - 1 - (k \div 2)}

\* A plausible slip: cv2.THRESH_TOZERO, which keeps the levels above thresh.
ThresholdToZero(img, thresh) ==
    [p \in DOMAIN img |-> IF img[p] > thresh THEN img[p] ELSE 0]

\* cv2.threshold(image, thresh, 255, cv2.THRESH_BINARY)
Threshold(img, thresh) ==
    [p \in DOMAIN img |-> IF img[p] > thresh THEN MaxVal ELSE 0]

\* cv2.erode / cv2.dilate with a k x k kernel of ones, one iteration.
Erode(img, k) == [p \in DOMAIN img |-> MinOf({img[q] : q \in Window(img, p, k)})]

Dilate(img, k) == [p \in DOMAIN img |-> MaxOf({img[q] : q \in Window(img, p, k)})]

RECURSIVE ErodeN(_, _, _)
ErodeN(img, k, n) == IF n = 0 THEN img ELSE ErodeN(Erode(img, k), k, n - 1)

RECURSIVE DilateN(_, _, _)
DilateN(img, k, n) == IF n = 0 THEN img ELSE DilateN(Dilate(img, k), k, n - 1)

\* cv2.morphologyEx(img, cv2.MORPH_OPEN, kernel, iterations=n):
\* n erosions followed by n dilations.
MorphOpen(img, k, n) == DilateN(ErodeN(img, k, n), k, n)

\* cv2.bitwise_and(a, a, mask=m): a where the mask is non-zero, 0 elsewhere.
BitwiseAnd(a, m) == [p \in DOMAIN a |-> IF m[p] # 0 THEN a[p] ELSE 0]

(***************************************************************************)
(* cv2.distanceTransform(binary, cv2.DIST_L2, 3): the two-pass 3x3 chamfer *)
(* transform.  A pixel is background when it is 0.  The work buffer is     *)
(* kept in raster order: pixel <<y, x>> is entry y * w + x + 1.  Outside   *)
(* the image the buffer holds DistMax.                                     *)
(***************************************************************************)
RECURSIVE ForwardPass(_, _, _, _)
ForwardPass(bin, h, w, k) ==
    IF k = 0 THEN <<>>
    ELSE LET t == ForwardPass(bin, h, w, k - 1)
             y == (k - 1) \div w
             x == (k - 1) % w
             at(yy, xx) == IF yy >= 0 /\ xx >= 0 /\ xx < w
                           THEN t[yy * w + xx + 1] ELSE DistMax
         IN  Append(t, IF bin[<<y, x>>] = 0 THEN 0
                       ELSE MinOf({at(y - 1, x - 1) + DiagDist,
                                   at(y - 1, x) + HvDist,
                                   at(y - 1, x + 1) + DiagDist,
                                   at(y, x - 1) + HvDist}))

\* The entries k .. h * w of the buffer after the backward pass.
RECURSIVE BackwardPass(_, _, _, _)
BackwardPass(fwd, h, w, k) ==
    IF k > h * w THEN <<>>
    ELSE LET s == BackwardPass(fwd, h, w, k + 1)
             y == (k - 1) \div w
             x == (k - 1) % w
             at(yy, xx) == IF yy < h /\ xx >= 0 /\ xx < w
                           THEN s[yy * w + xx + 1 - k] ELSE DistMax
             t0 == fwd[k]
         IN  <<IF t0 > HvDist
               THEN MinOf({t0,
                           at(y + 1, x + 1) + DiagDist,
                           at(y + 1, x) + HvDist,
                           at(y + 1, x - 1) + DiagDist,
                           at(y, x + 1) + HvDist})
               ELSE t0>> \o s

DistanceTransform(bin) ==
    LET h == Height(bin)
        w == Width(bin)
        b == BackwardPass(ForwardPass(bin, h, w, h * w), h, w, 1)
    IN  [p \in DOMAIN bin |->
            IF b[p[1] * w + p[2] + 1] > DistMax THEN DistMax
            ELSE b[p[1] * w + p[2] + 1]]

(***************************************************************************)
(* MushroomSegmenter's private methods.                                    *)
(***************************************************************************)
\* _remove_background
RemoveBackground(img, s) ==
    LET binary == Threshold(img, s.back_threshold)
        k == s.morphology_kernel_size
        iterations == MaxOf({1, s.min_diameter \div 3})
        opened == MorphOpen(binary, k, iterations)
    IN  DilateN(opened, k, DilateIterations)

\* A plausible slip: the cutoff of the background remover used again.
BinarizeAtBackThreshold(img, s) ==
    IF Cardinality(Unique(img)) > 2 THEN Threshold(img, s.back_threshold)
    ELSE img

\* The image _compute_distance_transform hands to cv2.distanceTransform.
Binarize(img, s) ==
    IF Cardinality(Unique(img)) > 2 THEN Threshold(img, s.threshold) ELSE img

\* A plausible slip: the transform taken of the inverted mask.
ComputeDistanceTransformInverted(img, s) ==
    DistanceTransform([p \in DOMAIN img |->
                          IF Binarize(img, s)[p] = 0 THEN MaxVal ELSE 0])

\* _compute_distance_transform
ComputeDistanceTransform(img, s) == DistanceTransform(Binarize(img, s))

\* skimage's peak_local_max as corner_peaks calls it: the pixels that equal
\* the maximum of their (2 * min_distance + 1)-window (0 outside the image),
\* lie min_distance away from the border and exceed both the map's minimum
\* and threshold_rel (hundredths) times its maximum.
PeakLocalMax(dmap, min_distance, threshold_rel) ==
    IF IsUniform(dmap) THEN {}
    ELSE LET h == Height(dmap)
             w == Width(dmap)
             lo == MinOf(Unique(dmap))
             hi == MaxOf(Unique(dmap))
         IN  {p \in DOMAIN dmap :
                /\ dmap[p] = MaxOf({dmap[q] : q \in Window(dmap, p, 2 * min_distance + 1)}
                                   \cup {0})
                /\ p[1] >= min_distance /\ p[1] <= h - 1 - min_distance
                /\ p[2] >= min_distance /\ p[2] <= w - 1 - min_distance
                /\ dmap[p] > lo
                /\ dmap[p] * 100 > threshold_rel * hi}

\* corner_peaks' suppression: in raster order, a surviving candidate clears
\* every other candidate within min_distance of it (Chebyshev).
RECURSIVE Suppress(_, _, _, _, _)
Suppress(cands, k, h, w, min_distance) ==
    IF k = h * w THEN cands
    ELSE LET p == <<k \div w, k % w>>
         IN  IF p \in cands
             THEN Suppress({q \in cands :
                               \/ q = p
                               \/ Abs(q[1] - p[1]) > min_distance
                               \/ Abs(q[2] - p[2]) > min_distance},
                           k + 1, h, w, min_distance)
             ELSE Suppress(cands, k + 1, h, w, min_distance)

\* np.transpose(peaks.nonzero()): the coordinates in raster order.
RECURSIVE RowMajor(_, _, _, _)
RowMajor(S, k, h, w) ==
    IF k = h * w THEN <<>>
    ELSE (IF <<k \div w, k % w>> \in S THEN << <<k \div w, k % w>> >> ELSE <<>>)
         \o RowMajor(S, k + 1, h, w)

CornerPeaks(dmap, min_distance, threshold_rel) ==
    LET h == Height(dmap)
        w == Width(dmap)
    IN  RowMajor(Suppress(PeakLocalMax(dmap, min_distance, threshold_rel),
                          0, h, w, min_distance), 0, h, w)

\* A plausible slip: the separation taken as a radius.
FindLocalMaximaHalf(dmap, s) ==
    CornerPeaks(dmap, s.min_diameter \div 2, s.peaks_rel_threshold)

\* _find_local_maxima
FindLocalMaxima(dmap, s) ==
    CornerPeaks(dmap, s.min_diameter, s.peaks_rel_threshold)

\* coeff = 1 + (threshold - back_threshold) / (255 - back_threshold), as the
\* fraction CoeffNum / CoeffDen.  CoeffDen = 0 is Python's ZeroDivisionError.
CoeffDen(s) == MaxVal - s.back_threshold

\* A plausible slip: the two thresholds exchanged.
CoeffNumSwapped(s) == CoeffDen(s) + (s.back_threshold - s.threshold)

CoeffNum(s) == CoeffDen(s) + (s.threshold - s.back_threshold)

\* int(value * coeff) for a distance value (in 1/DistScale).
Radius(value, s) ==
    IF CoeffDen(s) > 0
    THEN PyInt(value * CoeffNum(s), DistScale * CoeffDen(s))
    ELSE PyInt(-(value * CoeffNum(s)), -(DistScale * CoeffDen(s)))

\* The loop of _extract_circles over peaks[i ..].
RECURSIVE ExtractFrom(_, _, _, _, _)
ExtractFrom(pks, i, dmap, eqmap, s) ==
    IF i > Len(pks) THEN <<>>
    ELSE LET y == pks[i][1]
             x == pks[i][2]
             radius1 == Radius(dmap[<<y, x>>], s)
             radius2 == Radius(eqmap[<<y, x>>], s)
         IN  (IF radius1 >= s.min_diameter \div 2
              THEN << <<x, y, radius1, radius2>> >> ELSE <<>>)
             \o ExtractFrom(pks, i + 1, dmap, eqmap, s)

\* _extract_circles, when the coefficient can be computed.
ExtractCircles(pks, dmap, eqmap, s) == ExtractFrom(pks, 1, dmap, eqmap, s)

\* _extract_circles raises ZeroDivisionError before its loop.
ExtractRaises(s) == CoeffDen(s) = 0

(***************************************************************************)
(* Settings (config/settings.py).                                          *)
(***************************************************************************)
DefaultSettings ==
    [back_threshold |-> 100, threshold |-> 150, min_diameter |-> 30,
     peaks_rel_threshold |-> 10, gaussian_kernel_size |-> 5,
     clahe_clip_limit |-> 20, clahe_tile_size |-> 8,
     morphology_kernel_size |-> 3]

\* A plausible slip: clahe_tile_size and morphology_kernel_size declared
\* without ge=1.
FieldsInRangeLoose(s) ==
    /\ s.back_threshold >= 0 /\ s.back_threshold <= MaxVal
    /\ s.threshold >= 0 /\ s.threshold <= MaxVal
    /\ s.min_diameter >= 1
    /\ s.peaks_rel_threshold >= 0 /\ s.peaks_rel_threshold <= 100
    /\ s.clahe_clip_limit >= 0

\* The Field(ge=..., le=...) constraints.
FieldsInRange(s) ==
    /\ s.back_threshold >= 0 /\ s.back_threshold <= MaxVal
    /\ s.threshold >= 0 /\ s.threshold <= MaxVal
    /\ s.min_diameter >= 1
    /\ s.peaks_rel_threshold >= 0 /\ s.peaks_rel_threshold <= 100
    /\ s.clahe_clip_limit >= 0
    /\ s.clahe_tile_size >= 1
    /\ s.morphology_kernel_size >= 1

\* validate_odd_kernel_size
ValidateOddKernelSize(v) == IF v % 2 = 0 THEN v + 1 ELSE v

\* Settings(**raw): the validated object, or ok = FALSE for ValidationError.
NewSettings(raw) ==
    IF FieldsInRange(raw)
    THEN [ok |-> TRUE,
          value |-> [raw EXCEPT
              !.gaussian_kernel_size = ValidateOddKernelSize(@),
              !.morphology_kernel_size = ValidateOddKernelSize(@)]]
    ELSE [ok |-> FALSE, value |-> raw]

(***************************************************************************)
(* Library stages whose arithmetic is not modelled: cv2.GaussianBlur,      *)
(* cv2.cvtColor and CLAHE.  Their result is drawn from a finite family of  *)
(* images, constrained by what the operation guarantees.  A colour image   *)
(* is kept as its grey levels (B = G = R).                                 *)
(***************************************************************************)
Levels == {0, 3, 120, 255}

Centre(h, w) == <<h \div 2, w \div 2>>

Dot(h, w, level) == [p \in Grid(h, w) |-> IF p = Centre(h, w) THEN level ELSE 0]

DotPair(h, w) ==
    [p \in Grid(h, w) |->
        IF p = Centre(h, w) THEN 255
        ELSE IF p = <<h \div 2, (w \div 2) + 1>> THEN 120 ELSE 0]

ImageFamily(h, w) ==
    {Uniform(h, w, l) : l \in Levels}
    \cup {Dot(h, w, l) : l \in Levels \ {0}}
    \cup {DotPair(h, w)}

\* cv2.GaussianBlur(image, (k, k), 0): a 1 x 1 kernel copies the image; a
\* larger one gives every pixel a weighted mean of its window.
GaussianBlur(px, k) ==
    IF k = 1 THEN {px}
    ELSE {g \in ImageFamily(Height(px), Width(px)) :
            \A p \in DOMAIN px :
                /\ g[p] >= MinOf({px[q] : q \in Window(px, p, k)})
                /\ g[p] <= MaxOf({px[q] : q \in Window(px, p, k)})}

\* CLAHE: a monotone remapping of the levels (the same for every tile of a
\* uniform image, so a uniform image stays uniform; black need not stay 0).
ClaheLuts ==
    {[l \in Levels |-> l],
     [l \in Levels |-> IF l = 0 THEN 3 ELSE l],
     [l \in Levels |-> IF l = 0 THEN 0 ELSE 255],
     [l \in Levels |-> 255]}

ClaheApply(img) == {[p \in DOMAIN img |-> lut[img[p]]] : lut \in ClaheLuts}

\* cv2.cvtColor(blurred, cv2.COLOR_BGR2GRAY) raises on a non-BGR image.
PreprocessRaises(im) == im.channels # 3

\* _preprocess_image: the images it can return.
PreprocessImage(im, s) ==
    UNION {ClaheApply(g) : g \in GaussianBlur(im.px, s.gaussian_kernel_size)}

(***************************************************************************)
(* MushroomSegmenter.segment: one action per stage.  pc names the stage to *)
(* run next; "returned" and "raised" end the call.                         *)
(***************************************************************************)
\* A plausible slip: the raw distance transform moved after the equalization.
StageOrderSwapped ==
    <<"preprocess", "remove_background", "mask", "equalize", "dist",
      "eq_dist", "find_peaks", "extract">>

StageOrder ==
    <<"preprocess", "remove_background", "mask", "dist", "equalize",
      "eq_dist", "find_peaks", "extract">>

StageAfter(stage) ==
    LET i == CHOOSE j \in 1 .. Len(StageOrder) : StageOrder[j] = stage
    IN  IF i < Len(StageOrder) THEN StageOrder[i + 1] ELSE "returned"

\* The stage starts; it ends the call when a library call in it raises.
Start(stage) ==
    /\ pc = stage
    /\ trace' = Append(trace, stage)
    /\ UNCHANGED <<settings, image, fault, prev, clivars>>

Finish(stage, raises) ==
    pc' = IF raises \/ fault = stage THEN "raised" ELSE StageAfter(stage)

SegPreprocess ==
    /\ Start("preprocess")
    /\ Finish("preprocess", PreprocessRaises(image))
    /\ IF PreprocessRaises(image) \/ fault = "preprocess"
       THEN UNCHANGED preprocessed
       ELSE preprocessed' \in PreprocessImage(image, settings)
    /\ UNCHANGED <<foreground_mask, masked_image, dist_map, equalized_image,
                   equalized_dist_map, peaks, circles>>

SegRemoveBackground ==
    /\ Start("remove_background")
    /\ Finish("remove_background", FALSE)
    /\ IF fault = "remove_background"
       THEN UNCHANGED foreground_mask
       ELSE foreground_mask' = RemoveBackground(preprocessed, settings)
    /\ UNCHANGED <<preprocessed, masked_image, dist_map, equalized_image,
                   equalized_dist_map, peaks, circles>>

SegMask ==
    /\ Start("mask")
    /\ Finish("mask", FALSE)
    /\ IF fault = "mask"
       THEN UNCHANGED masked_image
       ELSE masked_image' = BitwiseAnd(preprocessed, foreground_mask)
    /\ UNCHANGED <<preprocessed, foreground_mask, dist_map, equalized_image,
                   equalized_dist_map, peaks, circles>>

SegDistanceTransform ==
    /\ Start("dist")
    /\ Finish("dist", FALSE)
    /\ IF fault = "dist"
       THEN UNCHANGED dist_map
       ELSE dist_map' = ComputeDistanceTransform(masked_image, settings)
    /\ UNCHANGED <<preprocessed, foreground_mask, masked_image, equalized_image,
                   equalized_dist_map, peaks, circles>>

SegEqualize ==
    /\ Start("equalize")
    /\ Finish("equalize", FALSE)
    /\ IF fault = "equalize"
       THEN UNCHANGED equalized_image
       ELSE equalized_image' \in ClaheApply(masked_image)
    /\ UNCHANGED <<preprocessed, foreground_mask, masked_image, dist_map,
                   equalized_dist_map, peaks, circles>>

SegEqualizedDistance ==
    /\ Start("eq_dist")
    /\ Finish("eq_dist", FALSE)
    /\ IF fault = "eq_dist"
       THEN UNCHANGED equalized_dist_map
       ELSE equalized_dist_map' = ComputeDistanceTransform(equalized_image, settings)
    /\ UNCHANGED <<preprocessed, foreground_mask, masked_image, dist_map,
                   equalized_image, peaks, circles>>

SegFindPeaks ==
    /\ Start("find_peaks")
    /\ Finish("find_peaks", FALSE)
    /\ IF fault = "find_peaks"
       THEN UNCHANGED peaks
       ELSE peaks' = FindLocalMaxima(equalized_dist_map, settings)
    /\ UNCHANGED <<preprocessed, foreground_mask, masked_image, dist_map,
                   equalized_image, equalized_dist_map, circles>>

SegExtractCircles ==
    /\ Start("extract")
    /\ Finish("extract", ExtractRaises(settings))
    /\ IF ExtractRaises(settings) \/ fault = "extract"
       THEN UNCHANGED circles
       ELSE circles' = ExtractCircles(peaks, dist_map, equalized_dist_map, settings)
    /\ UNCHANGED <<preprocessed, foreground_mask, masked_image, dist_map,
                   equalized_image, equalized_dist_map, peaks>>

SegmentStep ==
    \/ SegPreprocess
    \/ SegRemoveBackground
    \/ SegMask
    \/ SegDistanceTransform
    \/ SegEqualize
    \/ SegEqualizedDistance
    \/ SegFindPeaks
    \/ SegExtractCircles

\* The locals of a call of segment() that has not started.
FreshCall ==
    /\ preprocessed = NoImage
    /\ foreground_mask = NoImage
    /\ masked_image = NoImage
    /\ dist_map = NoImage
    /\ equalized_image = NoImage
    /\ equalized_dist_map = NoImage
    /\ peaks = <<>>
    /\ circles = <<>>
    /\ trace = <<>>

\* No command line run is in progress.
CliIdle ==
    /\ argv = <<>>
    /\ env = <<>>
    /\ cli_pc = "idle"
    /\ csv = <<>>
    /\ exit_status = -1
    /\ error = ""
    /\ log = <<>>

(***************************************************************************)
(* SpecSegment: segment() called on an image by a library user.            *)
(***************************************************************************)
SegSettings ==
    {[DefaultSettings EXCEPT !.back_threshold = b, !.threshold = t,
                             !.min_diameter = md, !.morphology_kernel_size = k,
                             !.gaussian_kernel_size = g] :
        b \in {0, 100, 255}, t \in {150}, md \in {1}, k \in {1, 3}, g \in {1, 5}}
    \cup {[DefaultSettings EXCEPT !.back_threshold = 0, !.threshold = t,
                                !.min_diameter = md, !.morphology_kernel_size = 1,
                                !.gaussian_kernel_size = 1] :
             t \in {50, 150}, md \in {1, 3}}

SegInputs ==
    {[channels |-> 3, px |-> g] : g \in ImageFamily(GridH, GridW)}
    \cup {[channels |-> 1, px |-> Uniform(GridH, GridW, 0)]}

InitSegment ==
    /\ \/ settings \in SegSettings /\ fault = "none"
       \/ settings = DefaultSettings
          /\ fault \in {StageOrder[i] : i \in 1 .. Len(StageOrder)}
    /\ image \in SegInputs
    /\ pc = "preprocess"
    /\ FreshCall
    /\ prev = <<>>
    /\ CliIdle

SpecSegment == InitSegment /\ [][SegmentStep]_vars

(***************************************************************************)
(* Private methods called directly, as a unit test does: the call starts   *)
(* at the method's stage with the locals it reads already set.             *)
(***************************************************************************)
NoInput == [channels |-> 0, px |-> NoImage]

\* SpecBg: _remove_background on a single-channel image.
BgLevelPairs == {<<0, 255>>, <<100, 101>>, <<50, 200>>}

BgImages ==
    UNION {[Grid(BgH, BgW) -> {lv[1], lv[2]}] : lv \in BgLevelPairs}

BgSettings ==
    {[DefaultSettings EXCEPT !.back_threshold = b, !.min_diameter = md,
                             !.morphology_kernel_size = k] :
        b \in {0, 100, 255}, md \in {1, 6}, k \in {1, 3}}

InitBg ==
    /\ settings \in BgSettings
    /\ fault = "none"
    /\ image = NoInput
    /\ preprocessed \in BgImages
    /\ foreground_mask = NoImage
    /\ masked_image = NoImage
    /\ dist_map = NoImage
    /\ equalized_image = NoImage
    /\ equalized_dist_map = NoImage
    /\ peaks = <<>>
    /\ circles = <<>>
    /\ pc = "remove_background"
    /\ trace = <<>>
    /\ prev = <<>>
    /\ CliIdle

SpecBg == InitBg /\ [][SegRemoveBackground]_vars

\* SpecDist: _compute_distance_transform on binary masks and on a few
\* images of other levels.
DistInputs ==
    [Grid(GridH, GridW) -> {0, MaxVal}] \cup ImageFamily(GridH, GridW)

DistSettings == {[DefaultSettings EXCEPT !.threshold = t] : t \in {50, 150}}

InitDist ==
    /\ settings \in DistSettings
    /\ fault = "none"
    /\ image = NoInput
    /\ preprocessed = NoImage
    /\ foreground_mask = NoImage
    /\ masked_image \in DistInputs
    /\ dist_map = NoImage
    /\ equalized_image = NoImage
    /\ equalized_dist_map = NoImage
    /\ peaks = <<>>
    /\ circles = <<>>
    /\ pc = "dist"
    /\ trace = <<>>
    /\ prev = <<>>
    /\ CliIdle

SpecDist == InitDist /\ [][SegDistanceTransform]_vars

\* SpecPeaks: _find_local_maxima on distance maps whose middle row is free
\* and whose other rows are constant.
PeakVals == {0, HvDist, 2 * HvDist}

PeakMaps ==
    {[p \in Grid(PeakH, PeakW) |->
         IF p[1] = PeakH \div 2 THEN mid[p[2]] ELSE rows[p[1]]] :
        mid \in [0 .. PeakW - 1 -> PeakVals],
        rows \in [0 .. PeakH - 1 -> {0, HvDist}]}

PeakSettings ==
    {[DefaultSettings EXCEPT !.min_diameter = md, !.peaks_rel_threshold = r] :
        md \in {1, 3}, r \in {0, 50, 100}}

InitPeaks ==
    /\ settings \in PeakSettings
    /\ fault = "none"
    /\ image = NoInput
    /\ preprocessed = NoImage
    /\ foreground_mask = NoImage
    /\ masked_image = NoImage
    /\ dist_map = NoImage
    /\ equalized_image = NoImage
    /\ equalized_dist_map \in PeakMaps
    /\ peaks = <<>>
    /\ circles = <<>>
    /\ pc = "find_peaks"
    /\ trace = <<>>
    /\ prev = <<>>
    /\ CliIdle

SpecPeaks == InitPeaks /\ [][SegFindPeaks]_vars

\* SpecExtract: _extract_circles on given peaks and maps; the caller may
\* assign another threshold to the settings object and call again.
ExtractPixels == Grid(1, 2)

DistVals == {0, HvDist, 30000}

ExtractThresholds == {0, 100, 255}

ExtractSettings ==
    {[DefaultSettings EXCEPT !.back_threshold = b, !.threshold = t,
                             !.min_diameter = md] :
        b \in {0, 200, 255}, t \in ExtractThresholds, md \in {1, 4}}

PeakSeqs == UNION {[1 .. n -> ExtractPixels] : n \in 0 .. MaxPeaks}

InitExtract ==
    /\ settings \in ExtractSettings
    /\ fault = "none"
    /\ image = NoInput
    /\ preprocessed = NoImage
    /\ foreground_mask = NoImage
    /\ masked_image = NoImage
    /\ dist_map \in [ExtractPixels -> DistVals]
    /\ equalized_image = NoImage
    /\ equalized_dist_map \in [ExtractPixels -> DistVals]
    /\ peaks \in PeakSeqs
    /\ circles = <<>>
    /\ pc = "extract"
    /\ trace = <<>>
    /\ prev = <<>>
    /\ CliIdle

\* settings.threshold = t between two calls; the finished call is kept.
Reconfigure ==
    /\ pc \in {"returned", "raised"}
    /\ Len(prev) < MaxRuns - 1
    /\ \E t \in ExtractThresholds \ {settings.threshold} :
          settings' = [settings EXCEPT !.threshold = t]
    /\ prev' = Append(prev, [settings |-> settings, raised |-> pc = "raised",
                             circles |-> circles])
    /\ circles' = <<>>
    /\ pc' = "extract"
    /\ trace' = <<>>
    /\ UNCHANGED <<image, preprocessed, foreground_mask, masked_image, dist_map,
                   equalized_image, equalized_dist_map, peaks, fault, clivars>>

NextExtract == SegExtractCircles \/ Reconfigure

SpecExtract == InitExtract /\ [][NextExtract]_vars

(***************************************************************************)
(* Claims about _extract_circles (SpecExtract).                            *)
(***************************************************************************)
\* C1: every circle (x, y, radius1, radius2) returned by _extract_circles
\* satisfies radius1 >= floor(min_diameter / 2), radius1 >= 0 and
\* radius2 >= 0, for every configuration inside the declared ranges.
C1_RadiiBounds ==
    pc = "returned" =>
        \A i \in 1 .. Len(circles) :
            /\ circles[i][3] >= settings.min_diameter \div 2
            /\ circles[i][3] >= 0
            /\ circles[i][4] >= 0

\* The calls of _extract_circles that have returned a list.
ReturnedRuns ==
    {prev[k] : k \in {j \in 1 .. Len(prev) : ~prev[j].raised}}
    \cup (IF pc = "returned"
          THEN {[settings |-> settings, raised |-> FALSE, circles |-> circles]}
          ELSE {})

\* Every circle of c1 has a circle of c2 at the same centre with radii at
\* least as large.
Dominated(c1, c2) ==
    \A i \in 1 .. Len(c1) : \E j \in 1 .. Len(c2) :
        /\ c2[j][1] = c1[i][1] /\ c2[j][2] = c1[i][2]
        /\ c2[j][3] >= c1[i][3] /\ c2[j][4] >= c1[i][4]

\* C4: with back_threshold fixed below 255 and thresholds t1 < t2, the
\* coefficient of t1 is strictly below that of t2, and on the same maps and
\* peaks every radius reported with t1 is reported at least as large with t2.
C4_CoeffMonotone ==
    \A r1, r2 \in ReturnedRuns :
        (/\ r1.settings.back_threshold = r2.settings.back_threshold
         /\ r1.settings.back_threshold < MaxVal
         /\ r1.settings.threshold < r2.settings.threshold)
        => /\ CoeffNum(r1.settings) * CoeffDen(r2.settings)
                < CoeffNum(r2.settings) * CoeffDen(r1.settings)
           /\ Dominated(r1.circles, r2.circles)

\* Two calls with t1 < t2 where the first reports a circle and the second
\* reports it strictly larger.
C4_Witness ==
    \E r1, r2 \in ReturnedRuns :
        /\ r1.settings.threshold < r2.settings.threshold
        /\ r1.settings.back_threshold < MaxVal
        /\ r1.circles # <<>>
        /\ \E i \in 1 .. Len(r1.circles), j \in 1 .. Len(r2.circles) :
              /\ r2.circles[j][1] = r1.circles[i][1]
              /\ r2.circles[j][3] > r1.circles[i][3]

\* The list the claim C10 describes: floor instead of int().
RECURSIVE ClaimedFrom(_, _, _, _, _)
ClaimedFrom(pks, i, dmap, eqmap, s) ==
    IF i > Len(pks) THEN <<>>
    ELSE LET y == pks[i][1]
             x == pks[i][2]
             r1 == Floor(dmap[<<y, x>>] * CoeffNum(s), DistScale * CoeffDen(s))
             r2 == Floor(eqmap[<<y, x>>] * CoeffNum(s), DistScale * CoeffDen(s))
         IN  (IF r1 >= s.min_diameter \div 2
              THEN << <<x, y, r1, r2>> >> ELSE <<>>)
             \o ClaimedFrom(pks, i + 1, dmap, eqmap, s)

\* C10: the list returned by _extract_circles is, in peak order, the
\* sequence of (x, y, floor(raw * coeff), floor(equalized * coeff)) over
\* exactly the peaks with floor(raw * coeff) >= floor(min_diameter / 2).
C10_FloorFormula ==
    (pc \in {"returned", "raised"} /\ settings.back_threshold < MaxVal)
    => /\ pc = "returned"
       /\ circles = ClaimedFrom(peaks, 1, dist_map, equalized_dist_map, settings)

(***************************************************************************)
(* Claims about segment (SpecSegment).                                     *)
(***************************************************************************)
IsBlack(im) == im.channels = 3 /\ \A p \in DOMAIN im.px : im.px[p] = 0

\* C2: for every configuration Settings accepts, segment on an all-black
\* image ends normally and returns an empty circle list; it never raises.
C2_AllBlackReturnsEmpty ==
    (IsBlack(image) /\ fault = "none" /\ pc \in {"returned", "raised"})
    => (pc = "returned" /\ circles = <<>>)

\* The order of the stages as the claim C9 lists them.
ClaimedOrder ==
    <<"preprocess", "remove_background", "mask", "dist", "equalize",
      "eq_dist", "find_peaks", "extract">>

\* Stage number i has run to its end.
Completed(i) == Len(trace) > i \/ (Len(trace) = i /\ pc # "raised")

\* C9: segment runs preprocess, remove_background, mask, raw distance
\* transform, equalize, equalized distance transform, find peaks (on the
\* equalized map) and extract circles (those peaks, both maps) in exactly
\* this order, each once, each on the output named; when a stage fails no
\* later stage runs and no circle list is returned.
C9_StageOrder ==
    /\ Len(trace) <= Len(ClaimedOrder)
    /\ \A i \in 1 .. Len(trace) : trace[i] = ClaimedOrder[i]
    /\ IF Completed(1) THEN preprocessed \in PreprocessImage(image, settings)
                       ELSE preprocessed = NoImage
    /\ IF Completed(2) THEN foreground_mask = RemoveBackground(preprocessed, settings)
                       ELSE foreground_mask = NoImage
    /\ IF Completed(3) THEN masked_image = BitwiseAnd(preprocessed, foreground_mask)
                       ELSE masked_image = NoImage
    /\ IF Completed(4) THEN dist_map = ComputeDistanceTransform(masked_image, settings)
                       ELSE dist_map = NoImage
    /\ IF Completed(5) THEN equalized_image \in ClaheApply(masked_image)
                       ELSE equalized_image = NoImage
    /\ IF Completed(6)
       THEN equalized_dist_map = ComputeDistanceTransform(equalized_image, settings)
       ELSE equalized_dist_map = NoImage
    /\ IF Completed(7) THEN peaks = FindLocalMaxima(equalized_dist_map, settings)
                       ELSE peaks = <<>>
    /\ IF pc = "returned"
       THEN /\ Len(trace) = Len(ClaimedOrder)
            /\ circles = ExtractCircles(peaks, dist_map, equalized_dist_map, settings)
       ELSE circles = <<>>
    /\ pc = "raised" => ~ENABLED SegmentStep

\* A complete run that returns a circle.
C9_Witness ==
    /\ pc = "returned"
    /\ trace = ClaimedOrder
    /\ circles # <<>>

IsBinaryMask(img) == Unique(img) \subseteq {0, MaxVal}

\* A pixel of the 8-neighbourhood of p is background.
AdjacentToBackground(img, p) == \E q \in Window(img, p, 3) : img[q] = 0

\* C6 as stated: the distance map is 0 wherever the mask is 0, and a pixel
\* of the map is strictly positive only if it is a foreground pixel that is
\* not adjacent to any background pixel.
C6_Original ==
    (pc = "equalize" /\ IsBinaryMask(masked_image)) =>
        \A p \in DOMAIN masked_image :
            /\ masked_image[p] = 0 => dist_map[p] = 0
            /\ dist_map[p] > 0 =>
                  /\ masked_image[p] # 0
                  /\ ~AdjacentToBackground(masked_image, p)

\* C6, amended: the distance map is 0 wherever the mask is 0 and strictly
\* positive (at least one horizontal step, 0.955) at every foreground
\* pixel, adjacent to the background or not; a pixel of the map exceeds one
\* diagonal step (1.3693) only if it is a foreground pixel that is not
\* adjacent to any background pixel.
C6_DistanceMap ==
    (pc = "equalize" /\ IsBinaryMask(masked_image)) =>
        \A p \in DOMAIN masked_image :
            /\ masked_image[p] = 0 => dist_map[p] = 0
            /\ masked_image[p] # 0 => dist_map[p] >= HvDist
            /\ dist_map[p] > DiagDist =>
                  /\ masked_image[p] # 0
                  /\ ~AdjacentToBackground(masked_image, p)

\* A mask with a foreground pixel next to the background and another one
\* further inside.
C6_Witness ==
    /\ pc = "equalize"
    /\ IsBinaryMask(masked_image)
    /\ \E p, q \in DOMAIN masked_image :
          /\ dist_map[p] = HvDist
          /\ dist_map[q] > DiagDist /\ dist_map[q] < DistMax

\* C8: every pixel of the mask returned by _remove_background is 0 or 255,
\* and the mask has the dimensions of the input.
C8_MaskBinary ==
    pc = "mask" =>
        /\ DOMAIN foreground_mask = DOMAIN preprocessed
        /\ \A p \in DOMAIN foreground_mask : foreground_mask[p] \in {0, MaxVal}

\* An input with levels other than 0 and 255 whose mask has both values.
C8_Witness ==
    /\ pc = "mask"
    /\ \E p \in DOMAIN preprocessed : preprocessed[p] \notin {0, MaxVal}
    /\ \E p, q \in DOMAIN foreground_mask :
          foreground_mask[p] = 0 /\ foreground_mask[q] = MaxVal

(***************************************************************************)
(* The command line entry point (__main__.py) and what it calls in         *)
(* utils/.  SpecCli runs cli() once on a command line.                     *)
(***************************************************************************)
\* A click option: not given (its default is passed) or given with a value.
Flag(default, values) ==
    {[given |-> FALSE, value |-> default]}
    \cup {[given |-> TRUE, value |-> v] : v \in values}

\* --visualize/--no-visualize with --save-visualization.
VisualizeOptions ==
    {<<TRUE, "none">>, <<FALSE, "none">>, <<FALSE, "ok">>, <<TRUE, "bad">>}

ArgvSet ==
    {[input_image |-> i, output_csv |-> o, visualize |-> v[1],
      save_visualization |-> v[2], config |-> c, back_threshold |-> b,
      threshold |-> t, min_diameter |-> md, peaks_threshold |-> pk] :
        i \in {"missing", "notes.txt", "corrupt.png", "black.png", "dot.png"},
        o \in {"ok", "denied", "full"},
        v \in VisualizeOptions,
        c \in {"none", "good", "bad"},
        b \in Flag(100, {255, 300}),
        t \in Flag(150, {50}),
        md \in Flag(30, {1, 0}),
        pk \in Flag(10, {150})}

\* What Settings() reads from .env: nothing, values in range, or one value
\* out of its range.
EnvFiles ==
    {DefaultSettings,
     [DefaultSettings EXCEPT !.back_threshold = 50, !.min_diameter = 3,
                             !.morphology_kernel_size = 2],
     [DefaultSettings EXCEPT !.back_threshold = -1],
     [DefaultSettings EXCEPT !.threshold = 300],
     [DefaultSettings EXCEPT !.min_diameter = 0],
     [DefaultSettings EXCEPT !.peaks_rel_threshold = 101],
     [DefaultSettings EXCEPT !.morphology_kernel_size = 0],
     [DefaultSettings EXCEPT !.clahe_tile_size = 0]}

\* What Settings(_env_file=config) reads from the --config file.
ConfigFile(name) ==
    IF name = "good"
    THEN [DefaultSettings EXCEPT !.threshold = 200, !.min_diameter = 1,
                                 !.gaussian_kernel_size = 1,
                                 !.morphology_kernel_size = 1]
    ELSE [DefaultSettings EXCEPT !.back_threshold = 256]

\* The click types of the arguments: Path(exists=True), IntRange(0, 255),
\* IntRange(1, None), FloatRange(0, 1).
ClickAccepts(a) ==
    /\ a.input_image # "missing"
    /\ a.back_threshold.value >= 0 /\ a.back_threshold.value <= MaxVal
    /\ a.threshold.value >= 0 /\ a.threshold.value <= MaxVal
    /\ a.min_diameter.value >= 1
    /\ a.peaks_threshold.value >= 0 /\ a.peaks_threshold.value <= 100

\* validate_image_path raises on a file that has no image suffix.
ImagePathRaises(name) == name = "notes.txt"

\* ImageIO.load_image raises when cv2.imread returns None.
LoadImageRaises(name) == name = "corrupt.png"

LoadImage(name) ==
    [channels |-> 3,
     px |-> IF name = "black.png" THEN Uniform(GridH, GridW, 0)
            ELSE Dot(GridH, GridW, MaxVal)]

Header == <<"X", "Y", "Radius_1", "Radius_2">>

Info(msg) == [level |-> "INFO", msg |-> msg]

\* raise inside the try block: control goes to the except clause.
Raise(origin) ==
    /\ error' = origin
    /\ cli_pc' = "except"

\* click parses and converts the arguments before cli() is entered; a usage
\* error ends the process with status 2.
CliParse ==
    /\ cli_pc = "start"
    /\ IF ClickAccepts(argv)
       THEN cli_pc' = "load_settings" /\ UNCHANGED exit_status
       ELSE cli_pc' = "exited" /\ exit_status' = 2
    /\ UNCHANGED <<settings, segvars, fault, prev, argv, env, csv, error, log>>

\* settings = Settings(); if config: settings = Settings(_env_file=config)
CliLoadSettings ==
    /\ cli_pc = "load_settings"
    /\ LET first == NewSettings(env)
           second == NewSettings(ConfigFile(argv.config))
       IN  IF ~first.ok \/ (argv.config # "none" /\ ~second.ok)
           THEN Raise("settings") /\ UNCHANGED settings
           ELSE /\ settings' = IF argv.config # "none" THEN second.value
                               ELSE first.value
                /\ cli_pc' = "override"
                /\ UNCHANGED error
    /\ UNCHANGED <<segvars, fault, prev, argv, env, csv, exit_status, log>>

\* The four assignments after construction; pydantic does not validate them.
CliOverride ==
    /\ cli_pc = "override"
    /\ settings' = [settings EXCEPT
           !.back_threshold = argv.back_threshold.value,
           !.threshold = argv.threshold.value,
           !.min_diameter = argv.min_diameter.value,
           !.peaks_rel_threshold = argv.peaks_threshold.value]
    /\ cli_pc' = "validate_paths"
    /\ UNCHANGED <<segvars, fault, prev, argv, env, csv, exit_status, error, log>>

CliValidatePaths ==
    /\ cli_pc = "validate_paths"
    /\ IF ImagePathRaises(argv.input_image)
       THEN Raise("paths") /\ UNCHANGED log
       ELSE /\ cli_pc' = "load_image"
            /\ log' = Append(log, Info("Processing image"))
            /\ UNCHANGED error
    /\ UNCHANGED <<settings, segvars, fault, prev, argv, env, csv, exit_status>>

CliLoadImage ==
    /\ cli_pc = "load_image"
    /\ IF LoadImageRaises(argv.input_image)
       THEN Raise("load") /\ UNCHANGED image
       ELSE /\ image' = LoadImage(argv.input_image)
            /\ cli_pc' = "segment"
            /\ UNCHANGED error
    /\ UNCHANGED <<settings, preprocessed, foreground_mask, masked_image,
                   dist_map, equalized_image, equalized_dist_map, peaks, circles,
                   pc, trace, fault, prev, argv, env, csv, exit_status, log>>

\* segmenter.segment(image) is entered.
CliSegmentCall ==
    /\ cli_pc = "segment"
    /\ pc' = StageOrder[1]
    /\ cli_pc' = "segmenting"
    /\ UNCHANGED <<settings, image, preprocessed, foreground_mask, masked_image,
                   dist_map, equalized_image, equalized_dist_map, peaks, circles,
                   trace, fault, prev, argv, env, csv, exit_status, error, log>>

\* segment() returns its list, or its exception reaches cli().
CliSegmentEnd ==
    /\ cli_pc = "segmenting"
    /\ pc \in {"returned", "raised"}
    /\ IF pc = "raised"
       THEN Raise("segment") /\ UNCHANGED log
       ELSE /\ cli_pc' = "export"
            /\ log' = Append(log, Info("Detected"))
            /\ UNCHANGED error
    /\ UNCHANGED <<settings, segvars, fault, prev, argv, env, csv, exit_status>>

\* ResultsExporter.to_csv: open(path, "w") may fail; the rows may not all
\* reach the file.
CliExport ==
    /\ cli_pc = "export"
    /\ IF argv.output_csv = "ok"
       THEN /\ csv' = <<Header>> \o circles
            /\ log' = Append(log, Info("Results saved"))
            /\ cli_pc' = "visualize"
            /\ UNCHANGED error
       ELSE /\ csv' = IF argv.output_csv = "full" THEN <<Header>> ELSE csv
            /\ Raise("export")
            /\ UNCHANGED log
    /\ UNCHANGED <<settings, segvars, fault, prev, argv, env, exit_status>>

\* draw_circles, then save_image (raises when cv2.imwrite fails) and display.
CliVisualize ==
    /\ cli_pc = "visualize"
    /\ IF argv.save_visualization = "bad"
       THEN Raise("visualize") /\ UNCHANGED log
       ELSE /\ log' = Append(IF argv.save_visualization = "ok"
                             THEN Append(log, Info("Visualization saved"))
                             ELSE log,
                             Info("Processing completed successfully"))
            /\ cli_pc' = "return"
            /\ UNCHANGED error
    /\ UNCHANGED <<settings, segvars, fault, prev, argv, env, csv, exit_status>>

\* cli() returns: click ends the process with status 0.
CliReturn ==
    /\ cli_pc = "return"
    /\ cli_pc' = "exited"
    /\ exit_status' = 0
    /\ UNCHANGED <<settings, segvars, fault, prev, argv, env, csv, error, log>>

\* A plausible slip: the handler logs the error and lets cli() return.
CliExceptSwallowed ==
    /\ cli_pc = "except"
    /\ log' = Append(log, [level |-> "ERROR", msg |-> error])
    /\ cli_pc' = "exited"
    /\ exit_status' = 0
    /\ UNCHANGED <<settings, segvars, fault, prev, argv, env, csv, error>>

\* except Exception as e: logger.error(...); sys.exit(1)
CliExcept ==
    /\ cli_pc = "except"
    /\ log' = Append(log, [level |-> "ERROR", msg |-> error])
    /\ cli_pc' = "exited"
    /\ exit_status' = 1
    /\ UNCHANGED <<settings, segvars, fault, prev, argv, env, csv, error>>

CliStep ==
    \/ CliParse
    \/ CliLoadSettings
    \/ CliOverride
    \/ CliValidatePaths
    \/ CliLoadImage
    \/ CliSegmentCall
    \/ CliSegmentEnd
    \/ CliExport
    \/ CliVisualize
    \/ CliReturn
    \/ CliExcept

InitCli ==
    /\ argv \in ArgvSet
    /\ env \in EnvFiles
    /\ cli_pc = "start"
    /\ csv = <<>>
    /\ exit_status = -1
    /\ error = ""
    /\ log = <<>>
    /\ settings = DefaultSettings
    /\ fault = "none"
    /\ image = NoInput
    /\ pc = "idle"
    /\ FreshCall
    /\ prev = <<>>

NextCli == CliStep \/ SegmentStep

SpecCli == InitCli /\ [][NextCli]_vars

(***************************************************************************)
(* Claims about the command line (SpecCli).                                *)
(***************************************************************************)
\* The failures C5 names: settings loading, path validation, image loading
\* and segmentation.
CoreFailures == {"settings", "paths", "load", "segment"}

\* C5: when settings loading, path validation, image loading or
\* segmentation fails, the error is logged, the process exits with a
\* non-zero status and no CSV row has been written; the process exits with
\* status 0 only after the CSV holding the complete circle list is written.
C5_ExitStatus ==
    /\ error \in CoreFailures =>
          /\ csv = <<>>
          /\ exit_status # 0
          /\ cli_pc = "exited" =>
                /\ exit_status > 0
                /\ \E i \in 1 .. Len(log) :
                      log[i] = [level |-> "ERROR", msg |-> error]
    /\ exit_status = 0 =>
          /\ pc = "returned"
          /\ csv = <<Header>> \o circles

\* The run of a command line whose segmentation raised has ended.
C5_Witness ==
    /\ cli_pc = "exited"
    /\ error = "segment"
    /\ exit_status = 1
    /\ csv = <<>>

\* The ranges C7 declares (peaks_rel_threshold in hundredths).
ClaimedRanges(s) ==
    /\ s.back_threshold \in 0 .. 255
    /\ s.threshold \in 0 .. 255
    /\ s.min_diameter >= 1
    /\ s.peaks_rel_threshold \in 0 .. 100
    /\ s.morphology_kernel_size >= 1
    /\ s.clahe_tile_size >= 1

\* A file Settings is constructed from on this command line holds a value
\* out of its range.
OutOfRangeSource ==
    \/ ~ClaimedRanges(env)
    \/ argv.config # "none" /\ ~ClaimedRanges(ConfigFile(argv.config))

\* C7: a configuration with a field outside its declared range is rejected
\* when the Settings object is constructed, and no pipeline stage runs with
\* an out-of-range field, also after cli() has assigned the four main
\* fields from the command line.
C7_RangesEnforced ==
    /\ pc # "idle" => ClaimedRanges(settings)
    /\ OutOfRangeSource =>
          /\ pc = "idle"
          /\ cli_pc \in {"start", "load_settings", "except", "exited"}
          /\ cli_pc = "exited" => exit_status > 0
          /\ cli_pc = "except" => error = "settings"

\* Settings() has rejected an out-of-range value and the run has ended.
C7_Witness ==
    /\ cli_pc = "exited"
    /\ error = "settings"
    /\ ~ClaimedRanges(env)
    /\ exit_status = 1

\* The settings cli() has loaded before the four assignments: those of the
\* --config file when one is named, those of the environment otherwise.
LoadedSettings ==
    IF argv.config # "none" THEN NewSettings(ConfigFile(argv.config)).value
    ELSE NewSettings(env).value

\* The value C11 expects the segmenter to use for a field: the flag's when
\* the flag was provided, the loaded one otherwise.
ClaimedValue(flag, loaded) == IF flag.given THEN flag.value ELSE loaded

\* C11: once cli() has handed its settings to the segmenter, each of
\* back_threshold, threshold, min_diameter and peaks_rel_threshold is the
\* flag's value if the flag was provided, and otherwise the value Settings
\* loaded from the configuration file or the environment.
C11_FlagsOverrideOnlyIfGiven ==
    pc # "idle" =>
        /\ settings.back_threshold
               = ClaimedValue(argv.back_threshold, LoadedSettings.back_threshold)
        /\ settings.threshold
               = ClaimedValue(argv.threshold, LoadedSettings.threshold)
        /\ settings.min_diameter
               = ClaimedValue(argv.min_diameter, LoadedSettings.min_diameter)
        /\ settings.peaks_rel_threshold
               = ClaimedValue(argv.peaks_threshold,
                              LoadedSettings.peaks_rel_threshold)

(***************************************************************************)
(* The binarization inside _compute_distance_transform (SpecDist).         *)
(***************************************************************************)
\* The mask C12 describes: the pixels above threshold when the image has
\* more than two distinct levels, the image itself otherwise.
ClaimedMask(img, s) ==
    IF Cardinality({img[p] : p \in DOMAIN img}) > 2
    THEN [p \in DOMAIN img |-> IF img[p] > s.threshold THEN MaxVal ELSE 0]
    ELSE img

\* C12: _compute_distance_transform binarizes an image of more than two
\* distinct levels at threshold (foreground = pixels above threshold) and
\* uses an image of at most two levels unchanged (foreground = its non-zero
\* pixels); the result is the distance transform of that mask, 0 exactly at
\* its background pixels.
C12_BinarizedAtThreshold ==
    pc = "equalize" =>
        LET mask == ClaimedMask(masked_image, settings)
        IN  /\ dist_map = DistanceTransform(mask)
            /\ \A p \in DOMAIN mask : (mask[p] = 0) <=> (dist_map[p] = 0)

\* An image of three levels with a pixel between back_threshold and
\* threshold, which ends as background, next to one above threshold.
C12_Witness ==
    /\ pc = "equalize"
    /\ Cardinality({masked_image[p] : p \in DOMAIN masked_image}) > 2
    /\ \E p, q \in DOMAIN masked_image :
          /\ masked_image[p] > settings.back_threshold
          /\ masked_image[p] <= settings.threshold
          /\ dist_map[p] = 0
          /\ masked_image[q] > settings.threshold
          /\ dist_map[q] > 0

====
